---------------------------- MODULE Spec2Model ----------------------------
(***************************************************************************)
(* Telemetry loop of the MicrogridSystem firmware, in its two variants:    *)
(*   "ESP"  src/ESP/src/main.cpp          one INA219, one string per       *)
(*                                        metric plus a status topic       *)
(*   "PIO"  src/NodeMCU_PIO/src/main.cpp  three INA219 zones, one JSON     *)
(*                                        payload per zone                 *)
(* The program is single threaded: pc is the position of the one control   *)
(* thread in setup() / loop().  WiFi link, MQTT link, the millisecond      *)
(* clock, the sensors and the results of connect()/publish() are the       *)
(* environment.  Physical quantities are integers in units of 10^-6.       *)
(***************************************************************************)
EXTENDS Integers, Sequences, FiniteSets, TLC

(* ------------------------------ bounds -------------------------------- *)
MaxClock == 12600      \* the millisecond clock is followed up to here
MaxSample == 2         \* distinct register contents a sensor may return
MaxFaults == 1         \* link losses (WiFi or MQTT) the environment injects
MaxHaltSpins == 3      \* iterations of the halt loop that are followed
MaxPolls == 1          \* polls of WiFi.status() one join may take

(* ------------------------- program constants -------------------------- *)
sensor_interval == 5000
RetryDelay == 5000
WifiPollDelay == 500
WifiStartDelay == 10
HaltDelay == 10
DtostrfWidth == 6
DtostrfPrec == 3
WordBits == 32

Variants == {"ESP", "PIO"}
Radix == 2 ^ (WordBits \div 2)

ClockSteps == {sensor_interval, sensor_interval + 1}

(* ---------------------------- sensors --------------------------------- *)
Zones(v) == IF v = "ESP" THEN 1 .. 1 ELSE 1 .. 3

ZoneId(z) == IF z = 1 THEN "zone1" ELSE IF z = 2 THEN "zone2" ELSE "zone3"

ZoneTopic(z) ==
  IF z = 1 THEN "/node1/zone1" ELSE IF z = 2 THEN "/node1/zone2" ELSE "/node1/zone3"

\* What the INA219 of zone z holds in its registers when its k-th possible
\* content is present: every zone, metric and content gives another number.
Registers(z, k) ==
  [ busvoltage   |-> (11 + z) * 1000000 + k * 1000,
    shuntvoltage |-> z * 1000000 + k * 100000,
    current_mA   |-> (10 * z + k) * 1000000 + 500000,
    power_mW     |-> (100 * z + 10 * k) * 1000000 + 250000 ]

ZeroZone == [current_mA |-> 0, power_mW |-> 0, busvoltage |-> 0]

ZeroLocals ==
  [shuntvoltage |-> 0, busvoltage |-> 0, current_mA |-> 0, power_mW |-> 0,
   loadvoltage |-> 0]

(* ------------------------- 32-bit arithmetic -------------------------- *)
\* A 32-bit word is held as the integer its bits denote in two's complement,
\* -2^31 .. 2^31 - 1, and computed on by 16-bit halves.
Hi(w) == w \div Radix
Lo(w) == w % Radix
MkWord(h, l) == (((h + Radix \div 2) % Radix) - Radix \div 2) * Radix + l

\* a + b and a - b modulo 2^32
Add32(a, b) ==
  LET sl == Lo(a) + Lo(b)
      carry == IF sl >= Radix THEN 1 ELSE 0
  IN MkWord(Hi(a) + Hi(b) + carry, sl - carry * Radix)

Sub32(a, b) ==
  LET dl == Lo(a) - Lo(b)
      borrow == IF dl < 0 THEN 1 ELSE 0
  IN MkWord(Hi(a) - Hi(b) - borrow, dl + borrow * Radix)

\* unsigned comparison of a word with a small non-negative number
UnsignedGreater(w, c) == w < 0 \/ w > c

\* the signed subtraction a - b leaves the range of long
SignedSubOverflows(a, b) ==
  \/ a >= 0 /\ b < 0 /\ Sub32(a, b) < 0
  \/ a < 0 /\ b >= 0 /\ Sub32(a, b) >= 0

\* the test is written with >= : a tick is due at exactly the interval
TickOutcomes_AtLeast(v, n, l) ==
  IF v = "ESP"
    THEN {UnsignedGreater(Sub32(n, l), sensor_interval - 1)}
    ELSE IF SignedSubOverflows(n, l) THEN BOOLEAN ELSE {Sub32(n, l) >= 5000}

\* The outcomes of the tick test.  ESP compares unsigned 32-bit values.  PIO
\* holds both in a signed 32-bit long: when the difference leaves the signed
\* range the subtraction is undefined and either truth value may come out.
TickOutcomes(v, n, l) ==
  IF v = "ESP"
    THEN {UnsignedGreater(Sub32(n, l), sensor_interval)}
    ELSE IF SignedSubOverflows(n, l) THEN BOOLEAN ELSE {Sub32(n, l) > 5000}

\* millis() when c milliseconds have passed since the word read e
Millis(e, c) == Add32(e, c)

\* LONG_MAX, 2^31 - 1: the largest value of PIO's long lastMsg and now
MaxLong == MkWord(Radix \div 2 - 1, Radix - 1)

\* millis() readings half an interval before the counter passes 2^31 (where
\* a long turns negative) and before it passes 2^32 (where it restarts at 0)
WrapEpochs == {MaxLong - sensor_interval \div 2, -(sensor_interval \div 2)}

(* ----------------------------- dtostrf -------------------------------- *)
DigitChar(d) == SubSeq("0123456789", d + 1, d + 1)

RECURSIVE Digits(_)
Digits(n) == IF n < 10 THEN DigitChar(n) ELSE Digits(n \div 10) \o DigitChar(n % 10)

RECURSIVE Pow10(_)
Pow10(n) == IF n = 0 THEN 1 ELSE 10 * Pow10(n - 1)

RECURSIVE PadLeft(_, _)
PadLeft(s, w) == IF Len(s) >= w THEN s ELSE PadLeft(" " \o s, w)

RECURSIVE ZeroPad(_, _)
ZeroPad(s, w) == IF Len(s) >= w THEN s ELSE ZeroPad("0" \o s, w)

\* dtostrf(val, width, prec, buf) for val given in units of 10^-6: rounds to
\* prec fraction digits (half away from zero) and right-aligns in width.
Dtostrf(val, width, prec) ==
  LET unit == Pow10(6 - prec)
      mag == IF val < 0 THEN -val ELSE val
      scaled == (mag + unit \div 2) \div unit
      body == Digits(scaled \div Pow10(prec)) \o "." \o
              ZeroPad(Digits(scaled % Pow10(prec)), prec)
  IN PadLeft(IF val < 0 THEN "-" \o body ELSE body, width)

(* ------------------------------ JSON ---------------------------------- *)
\* serializeJson(doc, msg): the members of doc in insertion order, written
\* out as the token sequence key, value, key, value, ...
RECURSIVE SerializeJson(_)
SerializeJson(doc) ==
  IF doc = << >> THEN << >>
  ELSE <<Head(doc)[1], Head(doc)[2]>> \o SerializeJson(Tail(doc))

\* The value a reader of the serialized payload finds for a key.
JsonGet(text, key) ==
  LET at == {i \in 1 .. Len(text) : i % 2 = 1 /\ text[i] = key}
  IN IF at = {} THEN "absent"
     ELSE text[(CHOOSE i \in at : \A j \in at : i <= j) + 1]

(* ------------------------------ state --------------------------------- *)
VARIABLES
  variant,       \* which sketch runs
  pc,            \* position of the control thread
  idx,           \* sensor being initialised / zone being read / publish index
  wifiRet,       \* where setup_wifi() returns to
  wifi,          \* WiFi.status() == WL_CONNECTED
  mqtt,          \* client.connected()
  epoch,         \* what millis() read when the clock started
  clock,         \* milliseconds since then
  faults,        \* link losses injected so far
  lastMsg,       \* global lastMsg
  now,           \* local now of loop()
  zr,            \* PIO: zone1_readings .. zone3_readings
  loc,           \* ESP: the float locals of the tick
  msg,           \* PIO: char msg[200]
  allPublished,  \* ESP: bool allPublished
  discAtStart,   \* this iteration found client.connected() false
  connectOK,     \* a client.connect() succeeded in this iteration
  blocked,       \* milliseconds this iteration spent in setup_wifi() and reconnect()
  served,        \* calls of client.loop() made in this iteration
  ticked,        \* the tick fired in this iteration
  calls,         \* sensor getter calls of this iteration, in order
  sensed,        \* per zone, the registers its sensor gave in this iteration (a set)
  pubs,          \* publish calls of this iteration, in order
  log,           \* Serial records of this iteration about publishing
  tries,         \* connect attempts of the latest reconnect call: result and delay
  spins,         \* iterations of the halt loop so far
  polls,         \* polls of the current setup_wifi() call that found no link
  begins,        \* results of the sensor begin() calls made, in order
  ticks,         \* ticks fired since the initial state (boot in Spec)
  failedTicks,   \* the ticks (by number) in which a publish returned failure
  bodyMs,        \* milliseconds the latest finished tick took from its check to its end
  tickAt,        \* the clock when the latest tick fired (0 before the first)
  ever           \* kinds of external operation performed since boot

vars ==
  <<variant, epoch, pc, idx, wifiRet, wifi, mqtt, clock, faults, lastMsg, now, zr, loc,
    msg, allPublished, discAtStart, connectOK, blocked, served, ticked, calls, sensed, pubs,
    log, tries, spins, polls, begins, ticks, failedTicks, bodyMs, tickAt, ever>>

envVars == <<wifi, mqtt, clock, faults>>
progVars == <<lastMsg, now, zr, loc, msg, allPublished>>
iterVars == <<discAtStart, connectOK, blocked, served, ticked, calls, sensed, pubs, log, tries>>

NoReading == [z \in 1 .. 3 |-> {}]

Init ==
  /\ variant \in Variants
  /\ epoch = 0
  /\ pc = "setup"
  /\ idx = 1
  /\ wifiRet = "setup_mqtt"
  /\ wifi = FALSE
  /\ mqtt = FALSE
  /\ clock = 0
  /\ faults = 0
  /\ lastMsg = 0
  /\ now = 0
  /\ zr = [z \in 1 .. 3 |-> ZeroZone]
  /\ loc = ZeroLocals
  /\ msg = << >>
  /\ allPublished = TRUE
  /\ discAtStart = FALSE
  /\ connectOK = FALSE
  /\ blocked = 0
  /\ served = 0
  /\ ticked = FALSE
  /\ calls = << >>
  /\ sensed = NoReading
  /\ pubs = << >>
  /\ log = << >>
  /\ tries = << >>
  /\ spins = 0
  /\ polls = 0
  /\ begins = << >>
  /\ ticks = 0
  /\ failedTicks = {}
  /\ bodyMs = 0
  /\ tickAt = 0
  /\ ever = {}

LoopTop(v) == IF v = "ESP" THEN "loop_wifi" ELSE "loop_mqtt"

(* ------------------------------ setup --------------------------------- *)
\* setup(): the begin() of the next sensor, in the order zone1, zone2, zone3.
\* A failure enters while (1) delay(10); success goes on to the next sensor
\* and, after the last, to setup_wifi().
\* the last sensor's failure does not stop setup()
AfterBegin_FallThrough(v, i, ok) ==
  IF i + 1 \in Zones(v) THEN (IF ok THEN "setup" ELSE "halt") ELSE "setup_wifi"

AfterBegin(v, i, ok) ==
  IF ~ok THEN "halt" ELSE IF i + 1 \in Zones(v) THEN "setup" ELSE "setup_wifi"

SensorBegin ==
  /\ pc = "setup"
  /\ \E ok \in BOOLEAN :
       /\ pc' = AfterBegin(variant, idx, ok)
       /\ idx' = IF ok /\ idx + 1 \in Zones(variant) THEN idx + 1 ELSE idx
       /\ begins' = Append(begins, ok)
  /\ UNCHANGED <<variant, epoch, bodyMs, tickAt, failedTicks, ticks, wifiRet, spins, polls, ever>>
  /\ UNCHANGED <<envVars, progVars, iterVars>>

\* while (1) { delay(10); }
Halt ==
  /\ pc = "halt"
  /\ spins < MaxHaltSpins
  /\ spins' = spins + 1
  /\ clock' = clock + HaltDelay
  /\ UNCHANGED <<variant, epoch, bodyMs, tickAt, failedTicks, begins, ticks, pc, idx, wifiRet, wifi, mqtt, faults, polls, ever>>
  /\ UNCHANGED <<progVars, iterVars>>

\* setup_wifi(): delay(10); WiFi.begin(ssid, password)
WifiBegin ==
  /\ pc = "setup_wifi"
  /\ clock + WifiStartDelay <= MaxClock
  /\ clock' = clock + WifiStartDelay
  /\ pc' = "wifi_wait"
  /\ ever' = ever \cup {"wifi"}
  /\ UNCHANGED <<variant, epoch, bodyMs, tickAt, failedTicks, begins, ticks, idx, wifiRet, wifi, mqtt, faults, spins, polls>>
  /\ blocked' = IF wifiRet = "loop_mqtt" THEN blocked + WifiStartDelay ELSE blocked
  /\ UNCHANGED <<progVars, discAtStart, connectOK, served, ticked, calls, sensed, pubs, log, tries>>

\* setup_wifi(): while (WiFi.status() != WL_CONNECTED) delay(500); then return
WifiWait ==
  /\ pc = "wifi_wait"
  /\ IF wifi
       THEN /\ pc' = wifiRet
            /\ clock' = clock
            /\ polls' = 0
       ELSE /\ polls < MaxPolls
            /\ clock + WifiPollDelay <= MaxClock
            /\ clock' = clock + WifiPollDelay
            /\ polls' = polls + 1
            /\ pc' = pc
  /\ UNCHANGED <<variant, epoch, bodyMs, tickAt, failedTicks, begins, ticks, idx, wifiRet, wifi, mqtt, faults, spins, ever>>
  /\ blocked' = IF wifiRet = "loop_mqtt" THEN blocked + (clock' - clock) ELSE blocked
  /\ UNCHANGED <<progVars, discAtStart, connectOK, served, ticked, calls, sensed, pubs, log, tries>>

\* setup(): client.setServer(...) (and setCallback in PIO); setup() returns
SetupMqtt ==
  /\ pc = "setup_mqtt"
  /\ pc' = LoopTop(variant)
  /\ UNCHANGED <<variant, epoch, bodyMs, tickAt, failedTicks, begins, ticks, idx, wifiRet, spins, polls, ever>>
  /\ UNCHANGED <<envVars, progVars, iterVars>>

(* --------------------------- loop(): links ---------------------------- *)
\* ESP loop(): if (WiFi.status() != WL_CONNECTED) setup_wifi();
LoopWifiCheck ==
  /\ pc = "loop_wifi"
  /\ pc' = IF wifi THEN "loop_mqtt" ELSE "setup_wifi"
  /\ wifiRet' = "loop_mqtt"
  /\ UNCHANGED <<variant, epoch, bodyMs, tickAt, failedTicks, begins, ticks, idx, spins, polls, ever>>
  /\ UNCHANGED <<envVars, progVars, iterVars>>

\* loop() without the reconnect call
AfterMqttCheck_NoReconnect(connected) == "service"

\* if (!client.connected()) reconnect();  -- where loop() goes next
AfterMqttCheck(connected) == IF connected THEN "service" ELSE "reconnect"

LoopMqttCheck ==
  /\ pc = "loop_mqtt"
  /\ discAtStart' = ~mqtt
  /\ pc' = AfterMqttCheck(mqtt)
  /\ UNCHANGED <<variant, epoch, bodyMs, tickAt, failedTicks, begins, ticks, idx, wifiRet, spins, polls, ever>>
  /\ UNCHANGED <<envVars, progVars>>
  /\ UNCHANGED <<connectOK, blocked, served, ticked, calls, sensed, pubs, log, tries>>

\* an if where the while belongs: one attempt, then on with loop()
ReconnectLoops_Once(connected, failed) == ~connected /\ failed < 1

\* the loop gives up after two failed attempts
ReconnectLoops_Bounded(connected, failed) == ~connected /\ failed < 2

\* while (!client.connected()): does the reconnect loop go round again, with
\* failed attempts already behind it
ReconnectLoops(connected, failed) == ~connected

\* delay(5000) after the failed attempt number n of one reconnect call
RetryDelayFor(n) == RetryDelay

FailedTries(t) == Cardinality({i \in 1 .. Len(t) : ~t[i].ok})

\* client.connect(id): fails without a network, otherwise either result
ConnectOutcomes(net) == IF net THEN BOOLEAN ELSE {FALSE}

\* reconnect(): the while condition is false, the routine returns
ReconnectReturn ==
  /\ pc = "reconnect"
  /\ ~ReconnectLoops(mqtt, FailedTries(tries))
  /\ pc' = "service"
  /\ UNCHANGED <<variant, epoch, bodyMs, tickAt, failedTicks, begins, ticks, idx, wifiRet, spins, polls, ever>>
  /\ UNCHANGED <<envVars, progVars, iterVars>>

\* reconnect(): one round of the while loop: client.connect(), and on
\* failure delay(5000)
ConnectAttempt ==
  /\ pc = "reconnect"
  /\ ReconnectLoops(mqtt, FailedTries(tries))
  /\ \E ok \in ConnectOutcomes(wifi) :
       LET d == IF ok THEN 0 ELSE RetryDelayFor(FailedTries(tries) + 1)
       IN /\ clock + d <= MaxClock
          /\ clock' = clock + d
          /\ mqtt' = ok
          /\ connectOK' = (connectOK \/ ok)
          /\ tries' = Append(tries, [ok |-> ok, delay |-> d])
          /\ blocked' = blocked + d
  /\ ever' = ever \cup {"connect"}
  /\ UNCHANGED <<variant, epoch, bodyMs, tickAt, failedTicks, begins, ticks, pc, idx, wifiRet, wifi, faults, spins, polls>>
  /\ UNCHANGED <<progVars, discAtStart, served, ticked, calls, sensed, pubs, log>>

\* loop() without the client.loop() call
Service_Skipped ==
  /\ pc = "service"
  /\ pc' = "tick"
  /\ tries' = << >>
  /\ UNCHANGED <<variant, epoch, bodyMs, tickAt, failedTicks, begins, ticks, idx, wifiRet, spins, polls, ever>>
  /\ UNCHANGED <<envVars, progVars>>
  /\ UNCHANGED <<discAtStart, connectOK, blocked, served, ticked, calls, sensed, pubs, log>>

\* client.loop()
Service ==
  /\ pc = "service"
  /\ pc' = "tick"
  /\ served' = served + 1
  /\ tries' = << >>
  /\ UNCHANGED <<variant, epoch, bodyMs, tickAt, failedTicks, begins, ticks, idx, wifiRet, spins, polls, ever>>
  /\ UNCHANGED <<envVars, progVars>>
  /\ UNCHANGED <<discAtStart, connectOK, blocked, ticked, calls, sensed, pubs, log>>

(* --------------------------- loop(): tick ----------------------------- *)
\* lastMsg += interval: the timestamp advances by one interval per tick
NextLastMsg_FixedRate(due, n, l) == IF due THEN Add32(l, sensor_interval) ELSE l

\* if (now - lastMsg > interval) { lastMsg = now; ... : lastMsg after the test
NextLastMsg(due, n, l) == IF due THEN n ELSE l

\* long now = millis(); if (now - lastMsg > interval) { lastMsg = now; ...
TickCheck ==
  /\ pc = "tick"
  /\ now' = Millis(epoch, clock)
  /\ \E due \in TickOutcomes(variant, now', lastMsg) :
       /\ ticked' = due
       /\ ticks' = IF due THEN ticks + 1 ELSE ticks
       /\ tickAt' = IF due THEN clock ELSE tickAt
       /\ lastMsg' = NextLastMsg(due, now', lastMsg)
       /\ pc' = IF due THEN "read" ELSE "loop_end"
  /\ idx' = 1
  /\ UNCHANGED <<variant, epoch, bodyMs, failedTicks, begins, wifiRet, spins, polls, ever, envVars>>
  /\ UNCHANGED <<zr, loc, msg, allPublished>>
  /\ UNCHANGED <<discAtStart, connectOK, blocked, served, calls, sensed, pubs, log, tries>>

\* The statements of the tick body in program order: where control is after
\* the step at position <<p, i>> ("read" zone i, "publish" call i).
NumPublishes(v) == IF v = "ESP" THEN 6 ELSE 3

\* a publish that failed stops the program
TickNext_HaltOnFailure(v, p, i, ok) ==
  IF p = "read"
    THEN IF i + 1 \in Zones(v) THEN <<"read", i + 1>> ELSE <<"publish", 1>>
    ELSE IF ~ok THEN <<"halt", i>>
         ELSE IF i < NumPublishes(v) THEN <<"publish", i + 1>> ELSE <<"loop_end", 1>>

\* a publish that failed is issued again
TickNext_RetryFailed(v, p, i, ok) ==
  IF p = "read"
    THEN IF i + 1 \in Zones(v) THEN <<"read", i + 1>> ELSE <<"publish", 1>>
    ELSE IF ~ok THEN <<"publish", i>>
         ELSE IF i < NumPublishes(v) THEN <<"publish", i + 1>> ELSE <<"loop_end", 1>>

\* PIO publishes each zone right after reading it
TickNext_Interleaved(v, p, i, ok) ==
  IF v = "ESP"
    THEN IF p = "read" THEN <<"publish", 1>>
         ELSE IF i < NumPublishes(v) THEN <<"publish", i + 1>> ELSE <<"loop_end", 1>>
    ELSE IF p = "read" THEN <<"publish", i>>
         ELSE IF i + 1 \in Zones(v) THEN <<"read", i + 1>> ELSE <<"loop_end", 1>>

TickNext(v, p, i, ok) ==
  IF p = "read"
    THEN IF i + 1 \in Zones(v) THEN <<"read", i + 1>> ELSE <<"publish", 1>>
    ELSE IF i < NumPublishes(v) THEN <<"publish", i + 1>> ELSE <<"loop_end", 1>>

\* getCurrent_mA() is called a second time where getPower_mW() belongs
GetterCalls_CurrentTwice(v, z) ==
  IF v = "ESP"
    THEN << <<z, "getShuntVoltage_mV">>, <<z, "getBusVoltage_V">>,
            <<z, "getCurrent_mA">>, <<z, "getCurrent_mA">> >>
    ELSE << <<z, "getCurrent_mA">>, <<z, "getCurrent_mA">>, <<z, "getBusVoltage_V">> >>

\* The getters called on the sensor of zone z, in program order.
GetterCalls(v, z) ==
  IF v = "ESP"
    THEN << <<z, "getShuntVoltage_mV">>, <<z, "getBusVoltage_V">>,
            <<z, "getCurrent_mA">>, <<z, "getPower_mW">> >>
    ELSE << <<z, "getCurrent_mA">>, <<z, "getPower_mW">>, <<z, "getBusVoltage_V">> >>

\* the shunt voltage is added in millivolts, without the division
LoadVoltage_Unscaled(bus, shunt) == bus + shunt

\* float loadvoltage = busvoltage + (shuntvoltage / 1000);
LoadVoltage(bus, shunt) == bus + shunt \div 1000

\* The reads of one sensor: ESP fills its locals, PIO zoneN_readings.
ReadZone ==
  /\ pc = "read"
  /\ \E k \in 1 .. MaxSample :
       LET r == Registers(idx, k)
       IN /\ sensed' = [sensed EXCEPT ![idx] = {r}]
          /\ IF variant = "ESP"
               THEN /\ loc' = [shuntvoltage |-> r.shuntvoltage,
                               busvoltage |-> r.busvoltage,
                               current_mA |-> r.current_mA,
                               power_mW |-> r.power_mW,
                               loadvoltage |-> LoadVoltage(r.busvoltage, r.shuntvoltage)]
                    /\ zr' = zr
               ELSE /\ zr' = [zr EXCEPT ![idx] = [current_mA |-> r.current_mA,
                                                   power_mW |-> r.power_mW,
                                                   busvoltage |-> r.busvoltage]]
                    /\ loc' = loc
  /\ calls' = calls \o GetterCalls(variant, idx)
  /\ pc' = TickNext(variant, "read", idx, TRUE)[1]
  /\ idx' = TickNext(variant, "read", idx, TRUE)[2]
  /\ ever' = ever \cup {"read"}
  /\ UNCHANGED <<variant, epoch, bodyMs, tickAt, failedTicks, begins, ticks, wifiRet, spins, polls, envVars>>
  /\ UNCHANGED <<lastMsg, now, msg, allPublished>>
  /\ UNCHANGED <<discAtStart, connectOK, blocked, served, ticked, pubs, log, tries>>

\* client.publish(topic, payload): false when not connected, otherwise the
\* write may succeed or fail
PublishOutcomes(connected) == IF connected THEN BOOLEAN ELSE {FALSE}

EspTopic(i) ==
  IF i = 1 THEN "microgrid/sensor/bus_voltage"
  ELSE IF i = 2 THEN "microgrid/sensor/shunt_voltage"
  ELSE IF i = 3 THEN "microgrid/sensor/load_voltage"
  ELSE IF i = 4 THEN "microgrid/sensor/current"
  ELSE IF i = 5 THEN "microgrid/sensor/power"
  ELSE "microgrid/sensor/status"

\* The local published by the i-th metric publish.
EspValue(l, i) ==
  IF i = 1 THEN l.busvoltage
  ELSE IF i = 2 THEN l.shuntvoltage
  ELSE IF i = 3 THEN l.loadvoltage
  ELSE IF i = 4 THEN l.current_mA
  ELSE l.power_mW

\* the flag follows the latest result only
NextAllPublished_LastOnly(ap, ok) == ok

\* if (!client.publish(...)) { ...; allPublished = false; }
NextAllPublished(ap, ok) == IF ~ok THEN FALSE ELSE ap

\* const char* statusMsg = allPublished ? "online" : "error";
StatusMsg(ap) == IF ap THEN "online" ELSE "error"

\* What Serial gets for a metric publish with result ok.
EspPublishLog(i, ok) == IF ok THEN << >> ELSE << [kind |-> "failed", topic |-> EspTopic(i)] >>

\* ESP: one of the five metric publishes (bool allPublished = true precedes
\* the first)
PublishMetric ==
  /\ pc = "publish"
  /\ variant = "ESP"
  /\ idx <= 5
  /\ \E ok \in PublishOutcomes(mqtt) :
       /\ pubs' = Append(pubs, [topic |-> EspTopic(idx),
                                payload |-> Dtostrf(EspValue(loc, idx), DtostrfWidth, DtostrfPrec),
                                ok |-> ok, conn |-> mqtt])
       /\ allPublished' = NextAllPublished(IF idx = 1 THEN TRUE ELSE allPublished, ok)
       /\ failedTicks' = IF ok THEN failedTicks ELSE failedTicks \cup {ticks}
       /\ log' = log \o EspPublishLog(idx, ok)
       /\ pc' = TickNext(variant, "publish", idx, ok)[1]
       /\ idx' = TickNext(variant, "publish", idx, ok)[2]
  /\ ever' = ever \cup {"publish"}
  /\ UNCHANGED <<variant, epoch, bodyMs, tickAt, begins, ticks, wifiRet, spins, polls, envVars>>
  /\ UNCHANGED <<lastMsg, now, zr, loc, msg>>
  /\ UNCHANGED <<discAtStart, connectOK, blocked, served, ticked, calls, sensed, tries>>

\* What Serial gets after the status publish, whose result is not looked at.
EspSummaryLog(ap, ok) ==
  << [kind |-> IF ap THEN "all_published" ELSE "some_failed", topic |-> "summary"] >>

\* ESP: client.publish(topic_status, statusMsg) and the closing report
PublishStatus ==
  /\ pc = "publish"
  /\ variant = "ESP"
  /\ idx = 6
  /\ \E ok \in PublishOutcomes(mqtt) :
       /\ pubs' = Append(pubs, [topic |-> EspTopic(idx), payload |-> StatusMsg(allPublished),
                                ok |-> ok, conn |-> mqtt])
       /\ failedTicks' = IF ok THEN failedTicks ELSE failedTicks \cup {ticks}
       /\ log' = log \o EspSummaryLog(allPublished, ok)
       /\ pc' = TickNext(variant, "publish", idx, ok)[1]
       /\ idx' = TickNext(variant, "publish", idx, ok)[2]
  /\ ever' = ever \cup {"publish"}
  /\ UNCHANGED <<variant, epoch, bodyMs, tickAt, begins, ticks, wifiRet, spins, polls, envVars>>
  /\ UNCHANGED <<lastMsg, now, zr, loc, msg, allPublished>>
  /\ UNCHANGED <<discAtStart, connectOK, blocked, served, ticked, calls, sensed, tries>>

\* every call is handed zone1_readings
ZoneArgs_Zone1Readings(z, readings, t) ==
  [zone_id |-> ZoneId(z), topic |-> ZoneTopic(z), readings |-> readings[1], timestamp |-> t]

\* The arguments loop() passes to the z-th publishZoneData call.
ZoneArgs(z, readings, t) ==
  [zone_id |-> ZoneId(z), topic |-> ZoneTopic(z), readings |-> readings[z], timestamp |-> t]

\* publishZoneData: the members put into the JSON document, in order.
ZoneDoc(zone_id, readings, timestamp) ==
  << <<"node_id", "node1">>, <<"zone_id", zone_id>>, <<"timestamp", timestamp>>,
     <<"current_mA", readings.current_mA>>, <<"voltage_V", readings.busvoltage>>,
     <<"power_mW", readings.power_mW>> >>

\* What Serial gets for a zone publish with result ok.
PioPublishLog(zone_id, topic, ok) == << [kind |-> "published", topic |-> topic] >>

\* PIO: publishZoneData(zone_id, topic, readings, now)
PublishZone ==
  /\ pc = "publish"
  /\ variant = "PIO"
  /\ LET a == ZoneArgs(idx, zr, now)
     IN /\ msg' = SerializeJson(ZoneDoc(a.zone_id, a.readings, a.timestamp))
        /\ \E ok \in PublishOutcomes(mqtt) :
             /\ pubs' = Append(pubs, [topic |-> a.topic, payload |-> msg',
                                      ok |-> ok, conn |-> mqtt])
             /\ failedTicks' = IF ok THEN failedTicks ELSE failedTicks \cup {ticks}
             /\ log' = log \o PioPublishLog(a.zone_id, a.topic, ok)
             /\ pc' = TickNext(variant, "publish", idx, ok)[1]
             /\ idx' = TickNext(variant, "publish", idx, ok)[2]
  /\ ever' = ever \cup {"publish"}
  /\ UNCHANGED <<variant, epoch, bodyMs, tickAt, begins, ticks, wifiRet, spins, polls, envVars>>
  /\ UNCHANGED <<lastMsg, now, zr, loc, allPublished>>
  /\ UNCHANGED <<discAtStart, connectOK, blocked, served, ticked, calls, sensed, tries>>

\* the tick ends with lastMsg = millis(): the interval counts from its end
LoopEnd_Restamp ==
  /\ pc = "loop_end"
  /\ pc' = LoopTop(variant)
  /\ idx' = 1
  /\ loc' = ZeroLocals
  /\ allPublished' = TRUE
  /\ discAtStart' = FALSE
  /\ connectOK' = FALSE
  /\ blocked' = 0
  /\ served' = 0
  /\ ticked' = FALSE
  /\ calls' = << >>
  /\ sensed' = NoReading
  /\ pubs' = << >>
  /\ log' = << >>
  /\ tries' = << >>
  /\ bodyMs' = IF ticked THEN clock - Sub32(lastMsg, epoch) ELSE bodyMs
  /\ UNCHANGED <<variant, epoch, tickAt, failedTicks, begins, ticks, wifiRet, spins, polls, ever, envVars>>
  /\ lastMsg' = IF ticked THEN Millis(epoch, clock) ELSE lastMsg
  /\ UNCHANGED <<now, zr, msg>>

\* loop() returns and is called again; the locals of the iteration are gone
LoopEnd ==
  /\ pc = "loop_end"
  /\ pc' = LoopTop(variant)
  /\ idx' = 1
  /\ loc' = ZeroLocals
  /\ allPublished' = TRUE
  /\ discAtStart' = FALSE
  /\ connectOK' = FALSE
  /\ blocked' = 0
  /\ served' = 0
  /\ ticked' = FALSE
  /\ calls' = << >>
  /\ sensed' = NoReading
  /\ pubs' = << >>
  /\ log' = << >>
  /\ tries' = << >>
  /\ bodyMs' = IF ticked THEN clock - Sub32(lastMsg, epoch) ELSE bodyMs
  /\ UNCHANGED <<variant, epoch, tickAt, failedTicks, begins, ticks, wifiRet, spins, polls, ever, envVars>>
  /\ UNCHANGED <<lastMsg, now, zr, msg>>

(* --------------------------- environment ------------------------------ *)
ElapsePcs == {"tick", "read"}

\* time passes: before millis() is sampled, and while the tick body runs
Elapse ==
  /\ pc \in ElapsePcs
  /\ \E d \in ClockSteps :
       /\ clock + d <= MaxClock
       /\ clock' = clock + d
  /\ UNCHANGED <<variant, epoch, bodyMs, tickAt, failedTicks, begins, ticks, pc, idx, wifiRet, wifi, mqtt, faults, spins, polls, ever>>
  /\ UNCHANGED <<progVars, iterVars>>

\* the station joins the network that WiFi.begin() asked for
WifiJoin ==
  /\ "wifi" \in ever
  /\ ~wifi
  /\ wifi' = TRUE
  /\ UNCHANGED <<variant, epoch, bodyMs, tickAt, failedTicks, begins, ticks, pc, idx, wifiRet, mqtt, clock, faults, spins, polls, ever>>
  /\ UNCHANGED <<progVars, iterVars>>

\* the WiFi link is lost
WifiDrop ==
  /\ wifi
  /\ faults < MaxFaults
  /\ wifi' = FALSE
  /\ faults' = faults + 1
  /\ UNCHANGED <<variant, epoch, bodyMs, tickAt, failedTicks, begins, ticks, pc, idx, wifiRet, mqtt, clock, spins, polls, ever>>
  /\ UNCHANGED <<progVars, iterVars>>

\* the broker connection is lost
LinkDrop ==
  /\ mqtt
  /\ faults < MaxFaults
  /\ mqtt' = FALSE
  /\ faults' = faults + 1
  /\ UNCHANGED <<variant, epoch, bodyMs, tickAt, failedTicks, begins, ticks, pc, idx, wifiRet, wifi, clock, spins, polls, ever>>
  /\ UNCHANGED <<progVars, iterVars>>

Next ==
  \/ SensorBegin
  \/ Halt
  \/ WifiBegin
  \/ WifiWait
  \/ SetupMqtt
  \/ LoopWifiCheck
  \/ LoopMqttCheck
  \/ ReconnectReturn
  \/ ConnectAttempt
  \/ Service
  \/ TickCheck
  \/ ReadZone
  \/ PublishMetric
  \/ PublishStatus
  \/ PublishZone
  \/ LoopEnd
  \/ Elapse
  \/ WifiJoin
  \/ WifiDrop
  \/ LinkDrop

Spec == Init /\ [][Next]_vars

(* ------------------- the loop around a wraparound -------------------- *)
\* The program weeks after boot, at the top of loop() with both links up,
\* at the end of an iteration whose tick sampled millis() = epoch short of a
\* wraparound of the counter.  clock counts from that tick.
WrapInit ==
  /\ variant \in Variants
  /\ epoch \in WrapEpochs
  /\ pc = LoopTop(variant)
  /\ idx = 1
  /\ wifiRet = "loop_mqtt"
  /\ wifi = TRUE
  /\ mqtt = TRUE
  /\ clock = 0
  /\ faults = 0
  /\ lastMsg = epoch
  /\ now = epoch
  /\ zr = [z \in 1 .. 3 |-> IF z \in Zones(variant)
                               THEN [current_mA |-> Registers(z, 1).current_mA,
                                     power_mW |-> Registers(z, 1).power_mW,
                                     busvoltage |-> Registers(z, 1).busvoltage]
                               ELSE ZeroZone]
  /\ loc = ZeroLocals
  /\ msg = IF variant = "PIO"
             THEN SerializeJson(ZoneDoc(ZoneId(3), zr[3], epoch))
             ELSE << >>
  /\ allPublished = TRUE
  /\ discAtStart = FALSE
  /\ connectOK = FALSE
  /\ blocked = 0
  /\ served = 0
  /\ ticked = FALSE
  /\ calls = << >>
  /\ sensed = NoReading
  /\ pubs = << >>
  /\ log = << >>
  /\ tries = << >>
  /\ spins = 0
  /\ polls = 0
  /\ begins = [i \in Zones(variant) |-> TRUE]
  /\ ticks = 0
  /\ failedTicks = {}
  /\ bodyMs = 0
  /\ tickAt = 0
  /\ ever = {"wifi", "connect", "read", "publish"}

\* loop() and its environment; setup() is long over
WrapNext ==
  \/ WifiBegin
  \/ WifiWait
  \/ LoopWifiCheck
  \/ LoopMqttCheck
  \/ ReconnectReturn
  \/ ConnectAttempt
  \/ Service
  \/ TickCheck
  \/ ReadZone
  \/ PublishMetric
  \/ PublishStatus
  \/ PublishZone
  \/ LoopEnd
  \/ Elapse
  \/ WifiJoin
  \/ WifiDrop
  \/ LinkDrop

WrapSpec == WrapInit /\ [][WrapNext]_vars

(* ----------------------------- fairness ------------------------------ *)
\* The steps of the control thread.
Prog ==
  \/ SensorBegin
  \/ Halt
  \/ WifiBegin
  \/ WifiWait
  \/ SetupMqtt
  \/ LoopWifiCheck
  \/ LoopMqttCheck
  \/ ReconnectReturn
  \/ ConnectAttempt
  \/ Service
  \/ TickCheck
  \/ ReadZone
  \/ PublishMetric
  \/ PublishStatus
  \/ PublishZone
  \/ LoopEnd

\* The processor keeps running the thread; the clock keeps advancing; the
\* network is joined again after a loss and a connect attempt succeeds in
\* the end.
LiveSpec ==
  /\ Spec
  /\ WF_vars(Prog)
  /\ SF_vars(Elapse)
  /\ WF_vars(WifiJoin)
  /\ WF_vars(ConnectAttempt /\ mqtt')

(* ============================== claims ================================ *)
TickPcs == {"service", "tick", "read", "publish", "loop_end"}

\* C1: in an iteration that found the MQTT transport disconnected, control
\* is past the reconnect call (at client.loop(), the tick check, a read or a
\* publish), or has read a sensor or published, only after a
\* client.connect() of that iteration succeeded.
C1_NoWorkBeforeReconnect ==
  discAtStart /\ (pc \in TickPcs \/ calls # << >> \/ pubs # << >>) => connectOK

C1_Witness ==
  /\ discAtStart
  /\ connectOK
  /\ faults > 0
  /\ ticks = 2
  /\ Len(pubs) = NumPublishes(variant)

\* C2: ESP: the status payload of a tick is "online" exactly when all five
\* metric publishes of that tick returned success, and "error" exactly when
\* one of them returned failure.
C2_StatusIffAllPublished ==
  variant = "ESP" /\ Len(pubs) = 6 =>
    /\ pubs[6].topic = "microgrid/sensor/status"
    /\ pubs[6].payload = "online" <=> \A i \in 1 .. 5 : pubs[i].ok
    /\ pubs[6].payload = "error" <=> \E i \in 1 .. 5 : ~pubs[i].ok

C2_Witness ==
  /\ variant = "ESP"
  /\ Len(pubs) = 6
  /\ ~pubs[2].ok
  /\ pubs[5].ok
  /\ pubs[6].ok
  /\ pubs[6].payload = "error"
  /\ ticks = 2

SomeBeginFailed == \E i \in 1 .. Len(begins) : ~begins[i]

\* C3: once a sensor begin() has failed, the failed call is the last begin()
\* made (the sensors before it succeeded, those after it are not tried), the
\* program is in the halt loop, and no WiFi join, MQTT connect, sensor read
\* or publish has happened or happens.
C3_InitFailureHalts ==
  SomeBeginFailed =>
    /\ pc = "halt"
    /\ \A i \in 1 .. Len(begins) : begins[i] <=> i < Len(begins)
    /\ ever = {}
    /\ calls = << >> /\ pubs = << >> /\ tries = << >>
    /\ ~wifi /\ ~mqtt /\ ticks = 0

C3_Witness ==
  /\ variant = "PIO"
  /\ begins = <<TRUE, TRUE, FALSE>>
  /\ pc = "halt"
  /\ spins = MaxHaltSpins

\* C4: PIO: every publish step of a tick is taken with all three zones read
\* in that tick, and every zone read is taken with no publish of that tick
\* made yet.
C4_ReadsBeforePublishes ==
  [][variant = "PIO" =>
       /\ Len(pubs') > Len(pubs) => \A z \in 1 .. 3 : sensed[z] # {}
       /\ Len(calls') > Len(calls) => pubs = << >>]_vars

C4_Witness ==
  /\ variant = "PIO"
  /\ Len(pubs) = 3
  /\ \A z \in 1 .. 3 : sensed[z] # {}
  /\ ticks = 2

\* The one reading a zone's sensor gave in this iteration.
SensedOf(z) == CHOOSE r \in sensed[z] : TRUE

\* C5: PIO: the i-th publish of a tick goes to the topic of zone i and its
\* payload carries zone i's identifier, the timestamp sampled at the start
\* of the tick, and the current, bus voltage and power that zone i's own
\* sensor gave in this tick; a finished tick has made three publish calls.
C5_ZonePayloadOwnData ==
  variant = "PIO" =>
    /\ \A i \in 1 .. Len(pubs) :
         /\ i \in 1 .. 3
         /\ pubs[i].topic = ZoneTopic(i)
         /\ JsonGet(pubs[i].payload, "zone_id") = ZoneId(i)
         /\ JsonGet(pubs[i].payload, "timestamp") = lastMsg
         /\ sensed[i] # {}
         /\ JsonGet(pubs[i].payload, "current_mA") = SensedOf(i).current_mA
         /\ JsonGet(pubs[i].payload, "voltage_V") = SensedOf(i).busvoltage
         /\ JsonGet(pubs[i].payload, "power_mW") = SensedOf(i).power_mW
    /\ pc = "loop_end" /\ ticked => Len(pubs) = 3

C5_Witness ==
  /\ variant = "PIO"
  /\ pc = "loop_end"
  /\ Len(pubs) = 3
  /\ sensed[1] = {Registers(1, 1)}
  /\ sensed[2] = {Registers(2, 2)}
  /\ sensed[3] = {Registers(3, 1)}
  /\ JsonGet(msg, "zone_id") = "zone3"
  /\ ticks = 2

Getters(v) ==
  IF v = "ESP"
    THEN {"getShuntVoltage_mV", "getBusVoltage_V", "getCurrent_mA", "getPower_mW"}
    ELSE {"getCurrent_mA", "getPower_mW", "getBusVoltage_V"}

CallCount(z, g) == Cardinality({i \in 1 .. Len(calls) : calls[i] = <<z, g>>})

\* C6: an iteration whose tick did not fire reads no sensor; no getter of a
\* configured zone is ever called twice in one iteration, no other getter or
\* sensor is called, and once the reads of a tick are over every getter of
\* every configured zone has been called exactly once.
C6_OneReadPerZonePerTick ==
  /\ ~ticked => calls = << >>
  /\ \A i \in 1 .. Len(calls) :
       /\ calls[i][1] \in Zones(variant)
       /\ calls[i][2] \in Getters(variant)
       /\ CallCount(calls[i][1], calls[i][2]) = 1
  /\ ticked /\ pc \in {"publish", "loop_end"} =>
       \A z \in Zones(variant) : \A g \in Getters(variant) : CallCount(z, g) = 1

C6_Witness ==
  /\ variant = "PIO"
  /\ pc = "loop_end"
  /\ ticked
  /\ Len(calls) = 9
  /\ ticks = 2

ExpectedTopics(v) ==
  IF v = "ESP"
    THEN <<"microgrid/sensor/bus_voltage", "microgrid/sensor/shunt_voltage",
           "microgrid/sensor/load_voltage", "microgrid/sensor/current",
           "microgrid/sensor/power", "microgrid/sensor/status">>
    ELSE <<"/node1/zone1", "/node1/zone2", "/node1/zone3">>

\* The values a tick may publish: what its own reads returned.
FreshPayload(v, i) ==
  IF v = "ESP"
    THEN IF sensed[1] = {} THEN "nothing read"
         ELSE IF i = 1 THEN Dtostrf(SensedOf(1).busvoltage, 6, 3)
         ELSE IF i = 2 THEN Dtostrf(SensedOf(1).shuntvoltage, 6, 3)
         ELSE IF i = 3
           THEN Dtostrf(SensedOf(1).busvoltage + SensedOf(1).shuntvoltage \div 1000, 6, 3)
         ELSE IF i = 4 THEN Dtostrf(SensedOf(1).current_mA, 6, 3)
         ELSE Dtostrf(SensedOf(1).power_mW, 6, 3)
    ELSE IF sensed[i] = {} THEN <<"nothing read">>
         ELSE <<SensedOf(i).current_mA, SensedOf(i).busvoltage, SensedOf(i).power_mW>>

PublishedValue(v, i) ==
  IF v = "ESP" THEN pubs[i].payload
  ELSE <<JsonGet(pubs[i].payload, "current_mA"), JsonGet(pubs[i].payload, "voltage_V"),
         JsonGet(pubs[i].payload, "power_mW")>>

\* C7: the publish calls of an iteration go to the topics of the variant in
\* their fixed order, one call per topic whatever the earlier results (so a
\* failed call is not issued again); a finished tick has made all of them,
\* an iteration without a tick none; and every value published was read in
\* the same tick.
C7_PublishAtMostOnce ==
  /\ Len(pubs) <= Len(ExpectedTopics(variant))
  /\ \A i \in 1 .. Len(pubs) : pubs[i].topic = ExpectedTopics(variant)[i]
  /\ ~ticked => pubs = << >>
  /\ pc = "loop_end" /\ ticked => Len(pubs) = Len(ExpectedTopics(variant))
  /\ \A i \in 1 .. Len(pubs) :
       pubs[i].topic # "microgrid/sensor/status" =>
         PublishedValue(variant, i) = FreshPayload(variant, i)

C7_Witness ==
  /\ variant = "ESP"
  /\ pc = "loop_end"
  /\ ticks = 2
  /\ Len(pubs) = 6
  /\ ~pubs[1].ok
  /\ ~pubs[3].ok
  /\ pubs[1].payload = "12.002"

\* C8: a publish call that returned failure has a failure record of its own
\* in the log and is not reported as published.
C8_FailureRecordedPerCall ==
  \A i \in 1 .. Len(pubs) :
    ~pubs[i].ok =>
      /\ \E j \in 1 .. Len(log) : log[j] = [kind |-> "failed", topic |-> pubs[i].topic]
      /\ ~\E j \in 1 .. Len(log) : log[j] = [kind |-> "published", topic |-> pubs[i].topic]

Last(q) == q[Len(q)]

\* C9: the reconnect routine is left only when the transport reports
\* connected, and then to go on with loop(); while the transport reports
\* disconnected its next step is a new connect attempt, however many have
\* failed; and every failed attempt is followed by a delay of 5000 ms.
C9_ReconnectBlocksUntilConnected ==
  [][pc = "reconnect" =>
       /\ pc' # "reconnect" => mqtt /\ pc' = "service"
       /\ ~mqtt /\ (pc' # pc \/ tries' # tries) => Len(tries') = Len(tries) + 1
       /\ mqtt /\ (pc' # pc \/ tries' # tries) => pc' = "service"
       /\ Len(tries') > Len(tries) /\ ~Last(tries').ok =>
            /\ Last(tries').delay = 5000
            /\ clock' = clock + 5000
            /\ pc' = "reconnect"]_vars

C9_Witness ==
  /\ pc = "service"
  /\ Len(tries) = 3
  /\ ~tries[1].ok
  /\ ~tries[2].ok
  /\ tries[3].ok
  /\ mqtt

SomeFailed == \E i \in 1 .. Len(pubs) : ~pubs[i].ok

FullTick ==
  /\ pc = "loop_end"
  /\ ticked
  /\ Len(pubs) = NumPublishes(variant)
  /\ \A z \in Zones(variant) : sensed[z] # {}

\* the clock of the model cannot advance by another interval
ClockExhausted == clock + sensor_interval > MaxClock

C11_TickOnlyAfterInterval ==
  /\ [](~ticked => calls = << >> /\ pubs = << >>)
  /\ [][~ticked' => lastMsg' = lastMsg]_vars
  /\ [][pc = "tick" /\ pc' # "tick" =>
         /\ ticked' <=> clock - lastMsg > sensor_interval
         /\ ticked' => lastMsg' = clock /\ lastMsg' - lastMsg > sensor_interval
         /\ ticks' = 1 => clock > sensor_interval
         /\ ~ticked' => pc' = "loop_end" /\ ticks' = ticks]_vars

\* the second tick at the smallest distance from the first, 5001 ms
C11_Witness ==
  /\ ticks = 2
  /\ ticked
  /\ pc = "loop_end"
  /\ lastMsg = WifiStartDelay + 2 * sensor_interval + 1

\* The number a subscriber reads from a dtostrf string with three fraction
\* digits, in thousandths.
RECURSIVE Thousandths(_)
Thousandths(str) ==
  IF str = "" THEN 0
  ELSE LET c == SubSeq(str, Len(str), Len(str))
           rest == SubSeq(str, 1, Len(str) - 1)
       IN IF c \in {" ", "."} THEN Thousandths(rest)
          ELSE 10 * Thousandths(rest) + (CHOOSE d \in 0 .. 9 : DigitChar(d) = c)

Distance(a, b) == IF a < b THEN b - a ELSE a - b

\* C12: ESP: the third publish of a tick goes to the load_voltage topic and
\* carries bus + shunt / 1000 of the registers read in this tick, the same
\* registers whose bus and shunt voltage the first two publishes carry; as
\* read back from the three strings, load differs from bus + shunt / 1000
\* by at most one thousandth (rounding to three digits).
C12_LoadVoltageDerived ==
  variant = "ESP" /\ Len(pubs) >= 3 =>
    /\ sensed[1] # {}
    /\ pubs[1].topic = "microgrid/sensor/bus_voltage"
    /\ pubs[2].topic = "microgrid/sensor/shunt_voltage"
    /\ pubs[3].topic = "microgrid/sensor/load_voltage"
    /\ pubs[1].payload = Dtostrf(SensedOf(1).busvoltage, 6, 3)
    /\ pubs[2].payload = Dtostrf(SensedOf(1).shuntvoltage, 6, 3)
    /\ pubs[3].payload =
         Dtostrf(SensedOf(1).busvoltage + SensedOf(1).shuntvoltage \div 1000, 6, 3)
    /\ Distance(Thousandths(pubs[3].payload),
                Thousandths(pubs[1].payload) + Thousandths(pubs[2].payload) \div 1000) <= 1

C12_Witness ==
  /\ variant = "ESP"
  /\ ticks = 2
  /\ Len(pubs) = 6
  /\ sensed[1] = {Registers(1, 2)}
  /\ pubs[1].payload = "12.002"
  /\ pubs[2].payload = " 1.200"
  /\ pubs[3].payload = "12.003"

\* C13: the timestamp of a tick is the clock value the tick check sampled,
\* stored by the check itself before any read or publish of the tick, and
\* nothing else changes it: while the body runs and after it, however long
\* it takes, lastMsg is still that sample; so the next check fires exactly
\* when the clock has passed the start of this tick by more than 5000 ms.
\* The check takes no time, whether or not the tick is due.
C13_TickStampedAtStart ==
  /\ [](ticked => lastMsg = now /\ lastMsg <= clock)
  /\ [][lastMsg' # lastMsg =>
         /\ pc = "tick"
         /\ lastMsg' = clock
         /\ calls' = << >> /\ pubs' = << >>]_vars
  /\ [][pc = "tick" /\ pc' # "tick" =>
         /\ clock' = clock
         /\ ticked' <=> clock > lastMsg + sensor_interval]_vars

\* the first tick took 5001 ms, and the second fired at the very next check
C13_Witness ==
  /\ ticks = 2
  /\ ticked
  /\ bodyMs = sensor_interval + 1
  /\ lastMsg = WifiStartDelay + 2 * sensor_interval + 1
  /\ Len(pubs) = NumPublishes(variant)

\* Positions of loop() before and after its client.loop() call; before it
\* lie the connectivity checks and the blocking setup_wifi() / reconnect().
BeforeService ==
  \/ pc \in {"loop_wifi", "loop_mqtt", "reconnect", "service"}
  \/ pc \in {"setup_wifi", "wifi_wait"} /\ wifiRet = "loop_mqtt"

AfterService == pc \in {"tick", "read", "publish", "loop_end"}

C15_PublishOnlyWhileConnected ==
  \A i \in 1 .. Len(pubs) : pubs[i].conn

\* C15 (amended): every publish call of a tick is made after the
\* connectivity check at the top of that iteration found the transport
\* connected or reconnect() connected it; the link is not looked at again
\* in the iteration, so a publish is made on a disconnected transport only
\* when the link was lost after that, and it then returns failure.
C15_PublishAfterConnectivityCheck ==
  /\ pubs # << >> => served = 1 /\ (discAtStart => connectOK)
  /\ \A i \in 1 .. Len(pubs) : ~pubs[i].conn => ~pubs[i].ok /\ faults > 0

\* the link is lost between the first and the second publish of a tick
C15_Witness ==
  /\ Len(pubs) = NumPublishes(variant)
  /\ pubs[1].conn
  /\ pubs[1].ok
  /\ ~pubs[2].conn
  /\ ~pubs[3].conn
  /\ ticks = 2

\* C16: a tick check fires at most one tick; a tick fires only when more
\* than 5000 ms of real time have passed since the tick before it (since
\* boot for the first); and a check that comes after setup_wifi() or
\* reconnect() blocked the iteration for two intervals or more fires one
\* tick and restarts the interval from the time of that tick, so the
\* intervals missed are not made up by ticks in quick succession.
C16_MissedTicksNotMadeUp ==
  [][pc = "tick" /\ pc' # "tick" =>
       /\ ticks' <= ticks + 1
       /\ ticked' => clock - tickAt > sensor_interval
       /\ blocked >= 2 * sensor_interval =>
            /\ ticked'
            /\ ticks' = ticks + 1
            /\ lastMsg' = clock
            /\ tickAt' = clock]_vars

\* reconnect() failed twice, 10000 ms, and the iteration then ran one tick
C16_Witness ==
  /\ pc = "loop_end"
  /\ ticked
  /\ ticks = 1
  /\ blocked = 2 * RetryDelay
  /\ tickAt = WifiStartDelay + 2 * RetryDelay
  /\ Len(pubs) = NumPublishes(variant)

\* C17: across the wraparound of the millisecond counter, past 2^31 and
\* past 2^32, in both variants, the tick test comes out true exactly when
\* more than 5000 ms of real time have passed since the last tick.
C17_CadenceSurvivesWraparound ==
  [][pc = "tick" /\ pc' # "tick" =>
       (ticked' <=> clock - tickAt > sensor_interval)]_vars

=============================================================================
